---- MODULE Spec2Model ----
(***************************************************************************)
(* Model of dss_server.py: the one-time data load (village points, water   *)
(* body centroids) and the /analyze handler (nearest water distance and    *)
(* the tiered recommendation).                                             *)
(*                                                                         *)
(* Values.  The values json.load and request.get_json build are tagged     *)
(* records whose tag is the name of the Python type: None, Bool, Integer,  *)
(* Float, Str, List and Obj (a dict, with its keys in insertion order).    *)
(* A number is an exact fraction n/d of thousandths: Integer(5) is 5,      *)
(* Milli(89) is the float 0.089, Float(269, 3) is 0.269 / 3.  A coordinate *)
(* is so counted in millidegrees; a distance (kilometres in the source) is *)
(* a whole number of metres, rounded up.  The rounding error of binary     *)
(* floating point, NaN and the infinite literals are not modelled.         *)
(* A call that can raise yields Return(value) or Raise(class, message).    *)
(***************************************************************************)
EXTENDS Integers, Sequences, FiniteSets, TLC

VARIABLES files, phase, fra_data, water_body_locations, request, response

vars == <<files, phase, fra_data, water_body_locations, request, response>>

----------------------------------------------------------------------------
(* Python / JSON values *)

Abs(x) == IF x < 0 THEN -x ELSE x

RECURSIVE GCD(_, _)
GCD(a, b) == IF b = 0 THEN a ELSE GCD(b, a % b)

None == [t |-> "NoneType"]
Bool(b) == [t |-> "bool", v |-> b]
Integer(k) == [t |-> "int", n |-> 1000 * k, d |-> 1]
\* The float n/d thousandths (d > 0), in lowest terms.
Float(n, d) ==
  LET g == GCD(Abs(n), d)
  IN [t |-> "float", n |-> n \div g, d |-> d \div g]
\* The float written with three decimals.
Milli(n) == Float(n, 1)
Str(s) == [t |-> "str", v |-> s]
List(s) == [t |-> "list", v |-> s]
\* A dict: the sequence of its <<key, value>> items, the keys distinct.
Obj(items) == [t |-> "dict", v |-> items]

\* type(x).__name__
TypeName(x) == x.t

\* int, float and bool are the real numbers of Python (True is 1).
IsReal(x) == x.t \in {"int", "float", "bool"}
Numer(x) == IF x.t = "bool" THEN (IF x.v THEN 1000 ELSE 0) ELSE x.n
Denom(x) == IF x.t = "bool" THEN 1 ELSE x.d

\* Python truth value (the `if name and ...` tests).
Truthy(x) ==
  CASE x.t = "NoneType" -> FALSE
    [] x.t = "bool" -> x.v
    [] x.t \in {"int", "float"} -> x.n # 0
    [] x.t = "str" -> x.v # ""
    [] x.t \in {"list", "dict"} -> x.v # <<>>

Return(v) == [raised |-> FALSE, val |-> v]
Raise(e, m) == [raised |-> TRUE, exc |-> e, msg |-> m]

HasKey(x, key) == \E i \in DOMAIN x.v : x.v[i][1] = key
ItemOf(x, key) == x.v[CHOOSE i \in DOMAIN x.v : x.v[i][1] = key][2]

\* x[0]. The keys of a JSON object are strings, so 0 is never one.
Subscript0(x) ==
  CASE x.t = "list" ->
         IF x.v = <<>> THEN Raise("IndexError", "list index out of range")
         ELSE Return(x.v[1])
    [] x.t = "str" ->
         IF x.v = "" THEN Raise("IndexError", "string index out of range")
         ELSE Return(Str(SubSeq(x.v, 1, 1)))
    [] x.t = "dict" -> Raise("KeyError", "0")
    [] x.t \in {"NoneType", "bool", "int", "float"} ->
         Raise("TypeError",
               "'" \o TypeName(x) \o "' object is not subscriptable")

\* x[key] for a str key.
Subscript(x, key) ==
  CASE x.t = "dict" ->
         IF HasKey(x, key) THEN Return(ItemOf(x, key))
         ELSE Raise("KeyError", "'" \o key \o "'")
    [] x.t = "list" ->
         Raise("TypeError", "list indices must be integers or slices, not str")
    [] x.t = "str" ->
         Raise("TypeError", "string indices must be integers, not 'str'")
    [] x.t \in {"NoneType", "bool", "int", "float"} ->
         Raise("TypeError",
               "'" \o TypeName(x) \o "' object is not subscriptable")

\* x.get(key, default)
GetDefault(x, key, default) ==
  IF x.t = "dict"
    THEN Return(IF HasKey(x, key) THEN ItemOf(x, key) ELSE default)
  ELSE Raise("AttributeError",
             "'" \o TypeName(x) \o "' object has no attribute 'get'")

\* x.get(key)
Get(x, key) == GetDefault(x, key, None)

\* list, str and dict are the iterable JSON values.
Iterable(x) == x.t \in {"list", "str", "dict"}

\* The items of an iterable: the elements of a list, the characters of a
\* str, the keys of a dict.
Items(x) ==
  CASE x.t = "list" -> x.v
    [] x.t = "str" -> [i \in 1..Len(x.v) |-> Str(SubSeq(x.v, i, i))]
    [] x.t = "dict" -> [i \in DOMAIN x.v |-> Str(x.v[i][1])]

\* The items `for ... in x` visits.
Iter(x) ==
  IF Iterable(x) THEN Return(Items(x))
  ELSE Raise("TypeError", "'" \o TypeName(x) \o "' object is not iterable")

\* `lon, lat = items` for the items of an iterable.
UnpackItems(items) ==
  IF Len(items) < 2
    THEN Raise("ValueError",
               "not enough values to unpack (expected 2, got "
                 \o ToString(Len(items)) \o ")")
  ELSE IF Len(items) > 2
    THEN Raise("ValueError", "too many values to unpack (expected 2)")
  ELSE Return(items)

\* `lon, lat = x`
Unpack2(x) ==
  IF Iterable(x) THEN UnpackItems(Items(x))
  ELSE Raise("TypeError",
             "cannot unpack non-iterable " \o TypeName(x) \o " object")

\* `total += x` for a number total.
IAdd(total, x) ==
  IF IsReal(x)
    THEN LET n == total.n * Denom(x) + Numer(x) * total.d
             d == total.d * Denom(x)
         IN Return(IF total.t = "float" \/ x.t = "float" THEN Float(n, d)
                   ELSE [t |-> "int", n |-> n, d |-> d])
  ELSE Raise("TypeError",
             "unsupported operand type(s) for +=: '" \o TypeName(total)
               \o "' and '" \o TypeName(x) \o "'")

\* total / n for a number total and n > 0: always a float.
TrueDiv(total, n) == Float(total.n, total.d * n)

----------------------------------------------------------------------------
(* find_polygon_centroid *)

ZeroSums == [lon_sum |-> Integer(0), lat_sum |-> Integer(0), num_points |-> 0]

\* lon_sum += lon; lat_sum += lat; num_points += 1 (lines 38-40) on the
\* sums `acc`, for the outcome `lonlat` of unpacking the item.
AddLonLat(acc, lonlat) ==
  LET lon_sum == IAdd(acc.lon_sum, lonlat.val[1])
      lat_sum == IAdd(acc.lat_sum, lonlat.val[2])
  IN IF lonlat.raised THEN lonlat
     ELSE IF lon_sum.raised THEN lon_sum
     ELSE IF lat_sum.raised THEN lat_sum
     ELSE Return([lon_sum |-> lon_sum.val, lat_sum |-> lat_sum.val,
                  num_points |-> acc.num_points + 1])

\* One iteration of `for lon, lat in ring` on the sums `acc`.
AddVertex(acc, vertex) == AddLonLat(acc, Unpack2(vertex))

\* In the loops below `acc` is the outcome so far: the sums, or the
\* exception that has left the loop.

RECURSIVE SumVertices(_, _, _)
SumVertices(acc, s, i) ==
  IF acc.raised \/ i > Len(s) THEN acc
  ELSE SumVertices(AddVertex(acc.val, s[i]), s, i + 1)

\* `for lon, lat in ring: ...` for one ring.
SumRing(acc, ring) ==
  LET vertices == Iter(ring)
  IN IF acc.raised THEN acc
     ELSE IF vertices.raised THEN vertices
     ELSE SumVertices(acc, vertices.val, 1)

RECURSIVE SumRingSeq(_, _, _)
SumRingSeq(acc, s, i) ==
  IF acc.raised \/ i > Len(s) THEN acc
  ELSE SumRingSeq(SumRing(acc, s[i]), s, i + 1)

\* SumRings with a fault: only the exterior ring is counted.
SumExteriorRing(acc, part) ==
  LET rings == Iter(part)
  IN IF acc.raised THEN acc
     ELSE IF rings.raised THEN rings
     ELSE SumRingSeq(acc, SubSeq(rings.val, 1, 1), 1)

\* `for ring in part: for lon, lat in ring: ...` (lines 36-40 and 43-47).
SumRings(acc, part) ==
  LET rings == Iter(part)
  IN IF acc.raised THEN acc
     ELSE IF rings.raised THEN rings
     ELSE SumRingSeq(acc, rings.val, 1)

RECURSIVE SumPartSeq(_, _, _)
SumPartSeq(acc, s, i) ==
  IF acc.raised \/ i > Len(s) THEN acc
  ELSE SumPartSeq(SumRings(acc, s[i]), s, i + 1)

\* `for part in coords: ...` (lines 35-40).
SumParts(acc, coords) ==
  LET parts == Iter(coords)
  IN IF parts.raised THEN parts ELSE SumPartSeq(acc, parts.val, 1)

\* coords[0][0][0], the value whose type selects the branch (line 34).
BranchProbe(coords) ==
  LET part == Subscript0(coords)
      ring == Subscript0(part.val)
  IN IF part.raised THEN part
     ELSE IF ring.raised THEN ring
     ELSE Subscript0(ring.val)

\* The return statements (lines 49-51) for the outcome `sums` of the loops.
Centroid(sums) ==
  IF sums.raised THEN sums
  ELSE IF sums.val.num_points > 0
    THEN Return(<<TrueDiv(sums.val.lon_sum, sums.val.num_points),
                  TrueDiv(sums.val.lat_sum, sums.val.num_points)>>)
  ELSE Return(<<None, None>>)

find_polygon_centroid(coords) ==
  LET probe == BranchProbe(coords)
  IN IF probe.raised THEN probe
     ELSE Centroid(IF probe.val.t = "list"
                     THEN SumParts(Return(ZeroSums), coords)
                   ELSE SumRings(Return(ZeroSums), coords))

----------------------------------------------------------------------------
(* haversine *)

CeilDiv(a, b) == (a + b - 1) \div b

\* Length in metres, rounded up, of a great-circle arc of n millidegrees on
\* the sphere of radius R = 6371 km: n * R * pi / 180, where
\* R * pi / 180 = 111.194926644559 (111 + 0.194 + 0.000926 + 0.000000644
\* + 0.000000000559). Rounding up keeps every comparison
\* `distance > whole metres` exact.
ArcMetres(n) ==
  n * 111
  + CeilDiv(n * 194
            + CeilDiv(n * 926
                      + CeilDiv(n * 644 + CeilDiv(n * 559, 1000), 1000),
                      1000),
            1000)

\* The angle n/d millidegrees taken the short way round the circle.
ShortWay(n, d) ==
  LET m == n % (360000 * d)
  IN IF m > 180000 * d THEN 360000 * d - m ELSE m

\* The arc of n/d millidegrees, in metres rounded up.
Arc(n, d) == CeilDiv(ArcMetres(ShortWay(n, d)), d)

\* The formula is evaluated where it has a closed form: on a meridian
\* (lon1 = lon2: a = sin^2(dlat/2), c = |dlat|) and on the equator
\* (lat1 = lat2 = 0: a = sin^2(dlon/2), c = |dlon|), c taken the short way
\* round. The data sets of this model keep to these two great circles.
\* math.radians raises on the first argument that is no real number.
haversine(lon1, lat1, lon2, lat2) ==
  LET args == <<lon1, lat1, lon2, lat2>>
      bad == {i \in 1..4 : ~IsReal(args[i])}
      first == CHOOSE i \in bad : \A j \in bad : i <= j
      dlon == Abs(Numer(lon2) * Denom(lon1) - Numer(lon1) * Denom(lon2))
      dlat == Abs(Numer(lat2) * Denom(lat1) - Numer(lat1) * Denom(lat2))
  IN IF bad # {}
       THEN Raise("TypeError",
                  "must be real number, not " \o TypeName(args[first]))
     ELSE CASE dlon = 0 -> Return(Arc(dlat, Denom(lat1) * Denom(lat2)))
            [] dlon # 0 /\ Numer(lat1) = 0 /\ Numer(lat2) = 0 ->
                 Return(Arc(dlon, Denom(lon1) * Denom(lon2)))

----------------------------------------------------------------------------
(* load_data *)

VILLAGE_FILES ==
  << [file_path |-> "centroids_mp.geojson", state_name |-> "Madhya Pradesh"],
     [file_path |-> "villages_od.geojson", state_name |-> "Odisha"],
     [file_path |-> "villages_tl.geojson", state_name |-> "Telangana"],
     [file_path |-> "villages_tp.geojson", state_name |-> "Tripura"] >>

WATER_FILES ==
  << [file_path |-> "fixed_waterbodies.geojson",
      state_name |-> "Madhya Pradesh"],
     [file_path |-> "fixed_waterbodies_od.geojson", state_name |-> "Odisha"],
     [file_path |-> "fixed_waterbodies_tl.geojson",
      state_name |-> "Telangana"],
     [file_path |-> "fixed_waterbodies_tp.geojson", state_name |-> "Tripura"] >>

\* A path of the file system holds no file (open raises FileNotFoundError)
\* or a file, of which the value json.load returns is kept.
Missing == [t |-> "missing"]
File(data) == [t |-> "file", data |-> data]

\* x can be a dict key (list and dict are unhashable).
Hashable(x) == x.t \notin {"list", "dict"}
Unhashable(x) ==
  Raise("TypeError", "unhashable type: '" \o TypeName(x) \o "'")

\* Keys are compared by == : 1, 1.0 and True are one key.
Key(x) ==
  IF IsReal(x) THEN [t |-> "real", n |-> Numer(x), d |-> Denom(x)] ELSE x

\* d[key] = value on a dict keyed by Key.
Put(d, key, value) ==
  [k \in DOMAIN d \cup {Key(key)} |-> IF k = Key(key) THEN value ELSE d[k]]

\* The dict with no key.
EmptyDict == [k \in {} |-> None]

\* The state of a load step: the globals so far and the class of the
\* exception, if any, that left the loop ("" for none).
Loaded(fd, wbl, exc) ==
  [fra_data |-> fd, water_body_locations |-> wbl, exc |-> exc]

\* The load left by the exception r.
Left(st, r) == Loaded(st.fra_data, st.water_body_locations, r.exc)

\* `feature["geometry"] and feature["geometry"]["coordinates"]` (lines 73,
\* 90): the coordinates when the geometry is truthy, the geometry otherwise.
GeometryCoordinates(feature) ==
  LET geometry == Subscript(feature, "geometry")
  IN IF geometry.raised THEN geometry
     ELSE IF Truthy(geometry.val) THEN Subscript(geometry.val, "coordinates")
     ELSE geometry

\* LoadVillageFeature with a fault: the first record of a name is kept.
LoadVillageFeatureFirstWins(st, state_name, feature) ==
  LET properties == Subscript(feature, "properties")
      name == Get(properties.val, "name")
      coordinates == GeometryCoordinates(feature)
      lonlat == Unpack2(coordinates.val)
  IN IF properties.raised THEN Left(st, properties)
     ELSE IF name.raised THEN Left(st, name)
     ELSE IF ~Truthy(name.val) THEN st
     ELSE IF coordinates.raised THEN Left(st, coordinates)
     ELSE IF ~Truthy(coordinates.val) THEN st
     ELSE IF lonlat.raised THEN Left(st, lonlat)
     ELSE IF ~Hashable(name.val) THEN Left(st, Unhashable(name.val))
     ELSE IF Key(name.val) \in DOMAIN st.fra_data THEN st
     ELSE Loaded(Put(st.fra_data, name.val,
                     [village |-> name.val, state |-> state_name,
                      lon |-> lonlat.val[1], lat |-> lonlat.val[2]]),
                 st.water_body_locations, "")

\* The body of the village loop (lines 72-80) for one feature.
LoadVillageFeature(st, state_name, feature) ==
  LET properties == Subscript(feature, "properties")
      name == Get(properties.val, "name")
      coordinates == GeometryCoordinates(feature)
      lonlat == Unpack2(coordinates.val)
  IN IF properties.raised THEN Left(st, properties)
     ELSE IF name.raised THEN Left(st, name)
     ELSE IF ~Truthy(name.val) THEN st
     ELSE IF coordinates.raised THEN Left(st, coordinates)
     ELSE IF ~Truthy(coordinates.val) THEN st
     ELSE IF lonlat.raised THEN Left(st, lonlat)
     ELSE IF ~Hashable(name.val) THEN Left(st, Unhashable(name.val))
     ELSE Loaded(Put(st.fra_data, name.val,
                     [village |-> name.val, state |-> state_name,
                      lon |-> lonlat.val[1], lat |-> lonlat.val[2]]),
                 st.water_body_locations, "")

\* `lon, lat = find_polygon_centroid(...)` and the append (lines 91-93),
\* for the outcome `centroid` of the call.
AppendCentroid(st, centroid) ==
  IF centroid.raised THEN Left(st, centroid)
  ELSE IF centroid.val[1].t # "NoneType"
    THEN Loaded(st.fra_data,
                Append(st.water_body_locations,
                       [lon |-> centroid.val[1], lat |-> centroid.val[2]]),
                "")
  ELSE st

\* The body of the water loop (lines 90-93) for one feature.
LoadWaterFeature(st, feature) ==
  LET coordinates == GeometryCoordinates(feature)
  IN IF coordinates.raised THEN Left(st, coordinates)
     ELSE IF ~Truthy(coordinates.val) THEN st
     ELSE AppendCentroid(st, find_polygon_centroid(coordinates.val))

RECURSIVE LoadVillageFeatures(_, _, _, _)
\* The iterations of `for feature in data["features"]` of one village file
\* from the i-th on (line 71).
LoadVillageFeatures(st, state_name, features, i) ==
  IF i > Len(features) \/ st.exc # "" THEN st
  ELSE LoadVillageFeatures(LoadVillageFeature(st, state_name, features[i]),
                           state_name, features, i + 1)

RECURSIVE LoadWaterFeatures(_, _, _)
\* The iterations of `for feature in data["features"]` of one water file
\* from the i-th on (line 89).
LoadWaterFeatures(st, features, i) ==
  IF i > Len(features) \/ st.exc # "" THEN st
  ELSE LoadWaterFeatures(LoadWaterFeature(st, features[i]), features, i + 1)

\* The features `for feature in data["features"]` visits (lines 71, 89).
Features(data) ==
  LET features == Subscript(data, "features")
  IN IF features.raised THEN features ELSE Iter(features.val)

RECURSIVE LoadVillageFiles(_, _, _)
\* `for file_path, state_name in VILLAGE_FILES.items()` (lines 67-82): a
\* missing file is skipped with a warning, any other exception leaves.
LoadVillageFiles(st, fs, k) ==
  IF k > Len(VILLAGE_FILES) \/ st.exc # "" THEN st
  ELSE LET entry == VILLAGE_FILES[k]
           file == fs[entry.file_path]
           features == Features(file.data)
       IN LoadVillageFiles(IF file = Missing THEN st
                           ELSE IF features.raised THEN Left(st, features)
                           ELSE LoadVillageFeatures(st, entry.state_name,
                                                    features.val, 1),
                           fs, k + 1)

RECURSIVE LoadWaterFiles(_, _, _)
\* `for file_path, state_name in WATER_FILES.items()` (lines 85-95).
LoadWaterFiles(st, fs, k) ==
  IF k > Len(WATER_FILES) \/ st.exc # "" THEN st
  ELSE LET file == fs[WATER_FILES[k].file_path]
           features == Features(file.data)
       IN LoadWaterFiles(IF file = Missing THEN st
                         ELSE IF features.raised THEN Left(st, features)
                         ELSE LoadWaterFeatures(st, features.val, 1),
                         fs, k + 1)

\* load_data() on the globals fd, wbl and the file system fs.
load_data(fd, wbl, fs) ==
  LoadWaterFiles(LoadVillageFiles(Loaded(fd, wbl, ""), fs, 1), fs, 1)

----------------------------------------------------------------------------
(* get_nearest_water_distance, generate_water_recommendation *)

\* float('inf'): above every finite distance.
Inf == 2147483647

\* `if dist < min_distance: min_distance = dist` (lines 105-106) for the
\* outcome `dist` of haversine.
Closer(min_distance, dist) ==
  IF dist.raised THEN dist
  ELSE IF dist.val < min_distance THEN dist
  ELSE Return(min_distance)

RECURSIVE NearestScan(_, _, _, _)
\* The loop of get_nearest_water_distance from water body i on (lines
\* 103-106); min_distance is the outcome so far: the minimum, or the
\* exception that has left the loop.
NearestScan(min_distance, i, lon, lat) ==
  IF min_distance.raised \/ i > Len(water_body_locations) THEN min_distance
  ELSE NearestScan(Closer(min_distance.val,
                          haversine(lon, lat, water_body_locations[i].lon,
                                    water_body_locations[i].lat)),
                   i + 1, lon, lat)

\* get_nearest_water_distance with a fault: the scan stops at the first
\* water body.
NearestFirstOnly(lon, lat) ==
  IF water_body_locations = <<>> THEN Return(Inf)
  ELSE haversine(lon, lat, water_body_locations[1].lon,
                 water_body_locations[1].lat)

get_nearest_water_distance(lon, lat) ==
  NearestScan(Return(Inf), 1, lon, lat)

\* f"{water_dist:.2f}": the distance rounded to two decimals. water_dist is
\* a length rounded up to the metre (the length itself lies in the metre
\* below it), so the hundredth above is reached from 6 metres on.
Format2f(water_dist) == ((water_dist + 4) \div 10) * 10

\* A message: the literal text with its placeholder, and the formatted
\* distance that fills it (none for a text without placeholder). The
\* emoji of the source texts are left out.
Message(text, args) == [text |-> text, args |-> args]

NotAvailableMessage ==
  Message("Data not available for this village. Recommend field survey.",
          <<>>)

CriticalMessage ==
  Message("No water source nearby. Nearest water body is over 1000 km away.\nUrgent intervention needed to establish sustainable water supply. Recommend Jal Jeevan Mission priority for infrastructure development.",
          <<>>)

SevereMessage(water_dist) ==
  Message("No water source nearby. Nearest water body is {water_dist:.2f} km away.\nConsider water harvesting and supply schemes under Jal Jeevan Mission.",
          <<Format2f(water_dist)>>)

ModerateMessage(water_dist) ==
  Message("Water source nearby but at {water_dist:.2f} km distance.\nRecommend improving water access infrastructure and monitoring water quality.",
          <<Format2f(water_dist)>>)

AdequateMessage(water_dist) ==
  Message("Water source very close at {water_dist:.2f} km.\nFocus on maintenance of existing water resources and community water management.",
          <<Format2f(water_dist)>>)

\* Recommendation with a fault: the bands include their lower bound.
RecommendationInclusive(water_dist) ==
  IF water_dist = Inf \/ water_dist >= 1000000 THEN CriticalMessage
  ELSE IF water_dist >= 100000 THEN SevereMessage(water_dist)
  ELSE IF water_dist >= 10000 THEN ModerateMessage(water_dist)
  ELSE AdequateMessage(water_dist)

\* The if/elif chain of generate_water_recommendation (lines 118-138).
Recommendation(water_dist) ==
  IF water_dist = Inf \/ water_dist > 1000000 THEN CriticalMessage
  ELSE IF water_dist > 100000 THEN SevereMessage(water_dist)
  ELSE IF water_dist > 10000 THEN ModerateMessage(water_dist)
  ELSE AdequateMessage(water_dist)

\* Lookup with a fault: "Rampur" and "rampur" are one name.
LookupIgnoreCase(village_name) ==
  LET fold(n) == IF n = Str("rampur") THEN Str("Rampur") ELSE n
      hits == {k \in DOMAIN fra_data : fold(k) = fold(Key(village_name))}
  IN IF hits = {} THEN None ELSE fra_data[CHOOSE k \in hits : TRUE]

\* fra_data.get(village_name) for a hashable name (line 111): the record
\* stored under the name, or None.
Lookup(village_name) ==
  IF Key(village_name) \in DOMAIN fra_data THEN fra_data[Key(village_name)]
  ELSE None

\* The distance water_dist as the float the function returns.
Distance(water_dist) == [t |-> "float", n |-> water_dist, d |-> 1]

\* The pair returned (line 140) for the outcome `water_dist` of
\* get_nearest_water_distance.
Recommend(water_dist) ==
  IF water_dist.raised THEN water_dist
  ELSE Return([recommendation |-> Recommendation(water_dist.val),
               distance |-> Distance(water_dist.val)])

\* Returns the pair (recommendation, distance), or raises when the name
\* cannot be a dict key or a stored coordinate is no number. A stored
\* record has four keys, so `not village_info` holds for None only.
generate_water_recommendation(village_name) ==
  LET village_info == Lookup(village_name)
  IN IF ~Hashable(village_name) THEN Unhashable(village_name)
     ELSE IF village_info = None
       THEN Return([recommendation |-> NotAvailableMessage,
                    distance |-> Str("N/A")])
     ELSE Recommend(get_nearest_water_distance(village_info.lon,
                                               village_info.lat))

----------------------------------------------------------------------------
(* analyze *)

Success(results) == [status |-> "success", results |-> results]
Error(message) == [status |-> "error", message |-> message]

\* AppendEntry with a fault: the newest entry is put first.
PrependEntry(results, name, pair) ==
  IF pair.raised THEN pair
  ELSE Return(<<[village |-> name,
                 recommendation |-> pair.val.recommendation,
                 distance_to_water |-> pair.val.distance]>>
              \o results)

\* results.append({...}) (lines 153-157) for the outcome `pair` of
\* generate_water_recommendation.
AppendEntry(results, name, pair) ==
  IF pair.raised THEN pair
  ELSE Return(Append(results,
                     [village |-> name,
                      recommendation |-> pair.val.recommendation,
                      distance_to_water |-> pair.val.distance]))

\* One iteration of the loop of analyze (lines 150-157): the results with
\* the record's entry appended, or the exception raised.
AnalyzeRecord(results, rec) ==
  LET name == Get(rec, "name")
  IN IF name.raised THEN name
     ELSE AppendEntry(results, name.val,
                      generate_water_recommendation(name.val))

RECURSIVE AnalyzeRecords(_, _, _)
\* The loop of analyze from record i on; results is the outcome so far.
AnalyzeRecords(results, villages, i) ==
  IF results.raised \/ i > Len(villages) THEN results
  ELSE AnalyzeRecords(AnalyzeRecord(results.val, villages[i]),
                      villages, i + 1)

\* jsonify of the results, or of the exception's message (lines 159-161).
Jsonify(results) ==
  IF results.raised THEN Error(results.msg) ELSE Success(results.val)

\* The response of analyze to the JSON value input_data (lines 145-161):
\* every exception becomes an error response with its message.
analyze(input_data) ==
  LET villages == GetDefault(input_data, "villages", List(<<>>))
      recs == Iter(villages.val)
  IN IF villages.raised THEN Jsonify(villages)
     ELSE IF recs.raised THEN Jsonify(recs)
     ELSE Jsonify(AnalyzeRecords(Return(<<>>), recs.val, 1))

----------------------------------------------------------------------------
(* The data files and requests the model explores *)

MaxBatch == 2
MaxLoadFeatures == 2
MaxRings == 2

SeqsUpTo(S, n) == UNION {[1..k -> S] : k \in 0..n}
SeqsFromTo(S, m, n) == UNION {[1..k -> S] : k \in m..n}

\* {"coordinates": coordinates}
Geometry(coordinates) == Obj(<< <<"coordinates", coordinates>> >>)
\* {"name": name}
Named(name) == Obj(<< <<"name", name>> >>)
\* A position of floats, in millidegrees.
Vertex(lon, lat) == List(<<Milli(lon), Milli(lat)>>)
Point(lon, lat) == Geometry(Vertex(lon, lat))

VillageFeature(properties, geometry) ==
  Obj(<< <<"properties", properties>>, <<"geometry", geometry>> >>)
WaterFeature(geometry) == Obj(<< <<"geometry", geometry>> >>)
FeatureCollection(features) == Obj(<< <<"features", List(features)>> >>)

\* A water body of two vertices on the equator, centred on lon.
EquatorPolygon(lon) ==
  WaterFeature(Geometry(List(<<List(<<Vertex(lon - 10, 0),
                                       Vertex(lon + 10, 0)>>)>>)))

\* A water body of two parts on the equator, centred on lon.
EquatorMultiPolygon(lon) ==
  WaterFeature(Geometry(List(<<List(<<List(<<Vertex(lon - 30, 0)>>)>>),
                               List(<<List(<<Vertex(lon + 10, 0),
                                             Vertex(lon + 20, 0)>>)>>)>>)))

\* A water body of three vertices on the equator whose mean, 0.269 / 3
\* degrees, is no whole number of millidegrees.
ThirdsPolygon ==
  WaterFeature(Geometry(List(<<List(<<Vertex(89, 0), Vertex(90, 0),
                                       Vertex(90, 0)>>)>>)))

\* Villages and water bodies of the query-serving runs. From Rampur at 0
\* the water bodies lie at 9.90, 9.97 (the thirds polygon), 10.01, 100.08
\* and 1000.09 km; from rampur at -0.810 degrees they lie at 99.97, 100.04,
\* 100.08, 190.15 and 1090.16 km. Sonpur has its coordinates written as
\* strings.
ServeVillageSets ==
  LET Rampur == VillageFeature(Named(Str("Rampur")), Point(0, 0))
      rampur == VillageFeature(Named(Str("rampur")), Point(-810, 0))
      Sonpur == VillageFeature(Named(Str("Sonpur")),
                               Geometry(List(<<Str("0.9"), Str("0")>>)))
  IN { <<Rampur>>, <<rampur>>, <<rampur, Rampur>>, <<Rampur, Sonpur>> }

ServeWaterSets ==
  { <<>>,
    <<EquatorPolygon(89)>>,
    <<ThirdsPolygon>>,
    <<EquatorPolygon(90)>>,
    <<EquatorMultiPolygon(900)>>,
    <<EquatorPolygon(8994)>>,
    <<EquatorPolygon(89), EquatorPolygon(90)>>,
    <<EquatorPolygon(90), EquatorPolygon(89)>>,
    <<EquatorPolygon(8994), EquatorMultiPolygon(900), EquatorPolygon(90)>> }

\* Village features of the load runs: duplicate names, names that differ
\* in case, an empty and a missing name, a name that is a list, a null
\* geometry, no coordinates, and coordinates that are a string of two
\* characters, a number, or a list of three.
LoadVillageFeatureSet ==
  { VillageFeature(Named(Str("Rampur")), Point(0, 0)),
    VillageFeature(Named(Str("Rampur")), Point(900, 0)),
    VillageFeature(Named(Str("rampur")), Point(0, 0)),
    VillageFeature(Named(Str("")), Point(0, 0)),
    VillageFeature(Obj(<<>>), Point(0, 0)),
    VillageFeature(Named(List(<<Str("Rampur")>>)), Point(0, 0)),
    VillageFeature(Named(Str("Rampur")), None),
    VillageFeature(Named(Str("Rampur")), Geometry(List(<<>>))),
    VillageFeature(Named(Str("Rampur")), Geometry(Str("ab"))),
    VillageFeature(Named(Str("Rampur")), Geometry(Integer(5))),
    VillageFeature(Named(Str("Rampur")),
                   Geometry(List(<<Integer(0), Integer(0), Integer(0)>>))) }

\* The square [[0,0],[0,2],[2,2],[2,0]], its coordinates written as ints.
Square ==
  List(<<List(<<Integer(0), Integer(0)>>), List(<<Integer(0), Integer(2)>>),
         List(<<Integer(2), Integer(2)>>), List(<<Integer(2), Integer(0)>>)>>)

\* Water features of the load runs: well-formed ones, and geometries with
\* no vertex, of the wrong nesting depth, with a non-numeric coordinate,
\* with an object for a ring, null, or without coordinates.
LoadWaterFeatureSet ==
  { EquatorPolygon(89),
    EquatorMultiPolygon(900),
    ThirdsPolygon,
    WaterFeature(Geometry(List(<<List(<<>>)>>))),
    WaterFeature(Geometry(List(<<List(<<List(<<>>)>>)>>))),
    WaterFeature(Geometry(List(<<Vertex(0, 0)>>))),
    WaterFeature(Geometry(List(<<List(<<List(<<Str("a"), Integer(0)>>)>>)>>))),
    WaterFeature(Geometry(List(<<List(<<Vertex(0, 0)>>),
                                 Named(Integer(1))>>))),
    WaterFeature(None),
    WaterFeature(Geometry(List(<<>>))) }

\* Rings and parts the polygons of the load runs are built of.
Rings ==
  { List(<<>>), List(<<Vertex(0, 0)>>), Square,
    List(<<Vertex(4000, 1000), Vertex(1000, 4000)>>) }

Parts ==
  { List(<<>>), List(<<Square>>),
    List(<<List(<<Vertex(0, 0)>>), List(<<>>)>>),
    List(<<List(<<>>), List(<<Vertex(4000, 1000), Vertex(1000, 4000)>>)>>) }

Polygons == {List(s) : s \in SeqsFromTo(Rings, 1, MaxRings)}
MultiPolygons == {List(s) : s \in SeqsFromTo(Parts, 1, MaxRings)}

\* Files whose content is no feature collection: a list, an object without
\* "features", features that are null, a number or a string.
OddData ==
  { List(<<>>), Obj(<<>>), Obj(<< <<"features", None>> >>),
    Obj(<< <<"features", Integer(5)>> >>), Obj(<< <<"features", Str("ab")>> >>) }

\* The ways to spread n features over the four files in load order.
Placements(n) ==
  {a \in [1..n -> 1..4] : \A i \in 1..(n - 1) : a[i] <= a[i + 1]}

\* The i-th feature in the i-th file.
Diagonal(n) == [i \in 1..n |-> i]

\* What file k holds: the features placed in it, in order; `absent` when
\* none is.
FileContent(features, place, k, absent) ==
  LET idx == {i \in 1..Len(features) : place[i] = k}
      first == CHOOSE i \in idx : \A j \in idx : i <= j
  IN IF idx = {} THEN absent
     ELSE File(FeatureCollection([j \in 1..Cardinality(idx) |->
                                    features[first + j - 1]]))

FileSystem(vfeatures, vplace, wfeatures, wplace, absent) ==
  LET vpaths == {VILLAGE_FILES[k].file_path : k \in 1..Len(VILLAGE_FILES)}
      wpaths == {WATER_FILES[k].file_path : k \in 1..Len(WATER_FILES)}
  IN [p \in vpaths \cup wpaths |->
        IF p \in vpaths
          THEN FileContent(vfeatures, vplace,
                           CHOOSE k \in 1..Len(VILLAGE_FILES) :
                             VILLAGE_FILES[k].file_path = p,
                           absent)
        ELSE FileContent(wfeatures, wplace,
                         CHOOSE k \in 1..Len(WATER_FILES) :
                           WATER_FILES[k].file_path = p,
                         absent)]

\* The file systems of the query-serving runs.
ServeFiles(fs) ==
  \E v \in ServeVillageSets, w \in ServeWaterSets :
    fs = FileSystem(v, Diagonal(Len(v)), w, Diagonal(Len(w)), Missing)

\* The file systems of the load runs: many village files with one water
\* file, many water files with one village file, one polygon or
\* multi-polygon alone, and one file that holds no feature collection; a
\* file that holds no feature is missing or empty.
LoadFiles(fs) ==
  LET onevillage == <<VillageFeature(Named(Str("Rampur")), Point(0, 0))>>
      onewater == <<EquatorPolygon(89)>>
  IN \E absent \in {Missing, File(FeatureCollection(<<>>))} :
       \/ \E v \in SeqsUpTo(LoadVillageFeatureSet, MaxLoadFeatures) :
            \E a \in Placements(Len(v)) :
              fs = FileSystem(v, a, onewater, Diagonal(1), absent)
       \/ \E w \in SeqsUpTo(LoadWaterFeatureSet, MaxLoadFeatures) :
            \E a \in Placements(Len(w)) :
              fs = FileSystem(onevillage, Diagonal(1), w, a, absent)
       \/ \E c \in Polygons \cup MultiPolygons :
            fs = FileSystem(onevillage, Diagonal(1),
                            <<WaterFeature(Geometry(c))>>, Diagonal(1),
                            absent)
       \/ \E data \in OddData :
            \E p \in {"villages_od.geojson", "fixed_waterbodies_od.geojson"} :
              fs = [FileSystem(onevillage, Diagonal(1), onewater,
                               Diagonal(1), absent)
                      EXCEPT ![p] = File(data)]

\* Records of a batch: known and unknown names, a village whose stored
\* coordinates are strings, no name, a name that is a list, and a record
\* that is no object.
Records ==
  { Named(Str("Rampur")),
    Named(Str("rampur")),
    Named(Str("Sonpur")),
    Obj(<<>>),
    Named(List(<<Str("Rampur")>>)),
    Str("Rampur") }

\* Request bodies: no "villages", batches of records, "villages" that is
\* null, and a body that is no object.
Requests ==
  {Obj(<<>>), Obj(<< <<"villages", None>> >>), List(<<>>)}
  \cup {Obj(<< <<"villages", List(s)>> >>) : s \in SeqsUpTo(Records, MaxBatch)}

----------------------------------------------------------------------------
(* The server *)

Idle == [status |-> "idle"]

\* The globals as the module defines them (lines 24-25), before load_data.
Unloaded ==
  /\ phase = "startup"
  /\ fra_data = EmptyDict
  /\ water_body_locations = <<>>
  /\ request = None
  /\ response = Idle

Init == ServeFiles(files) /\ Unloaded

InitLoad == LoadFiles(files) /\ Unloaded

\* The module-level call load_data() (line 98): an exception that leaves it
\* ends the process before app.run.
Startup ==
  /\ phase = "startup"
  /\ LET st == load_data(fra_data, water_body_locations, files)
     IN /\ fra_data' = st.fra_data
        /\ water_body_locations' = st.water_body_locations
        /\ phase' = IF st.exc = "" THEN "serving" ELSE "crashed"
  /\ UNCHANGED <<files, request, response>>

\* HandleAnalyze with a fault: a name asked for is remembered in fra_data.
HandleAnalyzeCaching ==
  /\ phase = "serving"
  /\ \E input_data \in Requests :
       /\ request' = input_data
       /\ response' = analyze(input_data)
       /\ fra_data' =
            IF response'.status = "success" /\ response'.results # <<>>
                 /\ Key(response'.results[1].village) \notin DOMAIN fra_data
              THEN Put(fra_data, response'.results[1].village,
                       [village |-> response'.results[1].village,
                        state |-> "", lon |-> Integer(0), lat |-> Integer(0)])
            ELSE fra_data
  /\ UNCHANGED <<files, phase, water_body_locations>>

\* One POST /analyze.
HandleAnalyze ==
  /\ phase = "serving"
  /\ \E input_data \in Requests :
       /\ request' = input_data
       /\ response' = analyze(input_data)
  /\ UNCHANGED <<files, phase, fra_data, water_body_locations>>

Next == Startup \/ HandleAnalyze

Spec == Init /\ [][Next]_vars

NextLoad == Startup

SpecLoad == InitLoad /\ [][NextLoad]_vars

----------------------------------------------------------------------------
(* Properties *)

Range(s) == {s[i] : i \in DOMAIN s}

\* The four bands of the nearest-water distance, as the specification
\* lists them.
Bands == {"critical", "severe", "moderate", "adequate"}

InBand(b, d) ==
  CASE b = "critical" -> d = Inf \/ d > 1000000
    [] b = "severe" -> d # Inf /\ 100000 < d /\ d <= 1000000
    [] b = "moderate" -> 10000 < d /\ d <= 100000
    [] b = "adequate" -> d <= 10000

BandMessage(b, d) ==
  CASE b = "critical" -> CriticalMessage
    [] b = "severe" -> SevereMessage(d)
    [] b = "moderate" -> ModerateMessage(d)
    [] b = "adequate" -> AdequateMessage(d)

\* msg is the message of the one band d lies in.
TierClaim(d, msg) ==
  /\ Cardinality({b \in Bands : InBand(b, d)}) = 1
  /\ \A b \in Bands :
       /\ InBand(b, d) <=> msg.text = BandMessage(b, 0).text
       /\ InBand(b, d) => msg = BandMessage(b, d)

\* Distances on, just below and just above each threshold (10, 100 and
\* 1000 km), and the sentinel.
ProbeDistances ==
  { 0, 9990, 10000, 10001, 10010, 99990, 100000, 100001, 100010,
    999990, 1000000, 1000001, 1000010, Inf }

\* C1: a found village's distance d gets the message of exactly one of four
\* bands: critical for the sentinel or d > 1000 km, severe for
\* 100 < d <= 1000, moderate for 10 < d <= 100, adequate for d <= 10; so
\* 10 km is adequate, 100 km moderate, 1000 km severe, and anything above a
\* threshold is in the next band. Checked on the thresholds themselves and
\* on every result of a response.
C1_TierBands ==
  /\ \A d \in ProbeDistances : TierClaim(d, Recommendation(d))
  /\ response.status = "success" =>
       \A i \in DOMAIN response.results :
         LET r == response.results[i]
         IN r.distance_to_water.t = "float" =>
              TierClaim(r.distance_to_water.n, r.recommendation)

\* A response that holds an adequate result (9.90 km) and a moderate one
\* just under 100 km (99.97 km).
C1_Witness ==
  /\ response.status = "success"
  /\ \E i, j \in DOMAIN response.results :
       /\ response.results[i].distance_to_water = Distance(9897)
       /\ response.results[i].recommendation = AdequateMessage(9897)
       /\ response.results[j].distance_to_water = Distance(99965)
       /\ response.results[j].recommendation = ModerateMessage(99965)

\* A record of the shape the interface names: an object with a string name.
NameRecord(rec) ==
  rec.t = "dict" /\ HasKey(rec, "name") /\ ItemOf(rec, "name").t = "str"

\* The request is a batch: an object whose "villages" is a list.
HasVillages(req) ==
  req.t = "dict" /\ HasKey(req, "villages")
    /\ ItemOf(req, "villages").t = "list"

\* The records of a batch.
Batch(req) == ItemOf(req, "villages").v

\* Every stored village has numbers for its coordinates, as the data model
\* of the specification assumes of the village files.
NumericVillages ==
  \A k \in DOMAIN fra_data : IsReal(fra_data[k].lon) /\ IsReal(fra_data[k].lat)

\* C2: for a batch of {name} records (over village data with numeric
\* coordinates) the results hold one entry per record, in the order of the
\* records, the i-th with the i-th name.
C2_OrderPreserved ==
  (HasVillages(request) /\ NumericVillages
     /\ \A rec \in Range(Batch(request)) : NameRecord(rec)) =>
    /\ response.status = "success"
    /\ Len(response.results) = Len(Batch(request))
    /\ \A i \in DOMAIN response.results :
         response.results[i].village = ItemOf(Batch(request)[i], "name")

\* A batch of two different names, answered in that order.
C2_Witness ==
  /\ HasVillages(request)
  /\ NumericVillages
  /\ Batch(request) = <<Named(Str("rampur")), Named(Str("Rampur"))>>
  /\ response.status = "success"
  /\ response.results[1].village = Str("rampur")
  /\ response.results[2].village = Str("Rampur")

\* What analyze answers for the record alone.
Alone(rec) == analyze(Obj(<< <<"villages", List(<<rec>>)>> >>))

\* C3: a record with a missing name, a name that is no string, or that is
\* no object does not abort the batch: the response is a success, with one
\* slot per record, and every well-formed record has the result it has
\* alone.
C3_MalformedRecordContained ==
  (HasVillages(request) /\ NumericVillages) =>
    /\ response.status = "success"
    /\ Len(response.results) = Len(Batch(request))
    /\ \A i \in DOMAIN response.results :
         NameRecord(Batch(request)[i]) =>
           response.results[i] = Alone(Batch(request)[i]).results[1]

\* C4: a name that is no key of fra_data (compared exactly, case included)
\* gets the field-survey message and "N/A", whatever the water bodies are;
\* a name that is a key never gets "N/A"; and every item of a batch has the
\* result it has alone.
C4_UnknownVillage ==
  /\ \A name \in {Str("Rampur"), Str("rampur"), Str("RAMPUR"), Str("Sonpur"),
                  Str(""), None} :
       LET r == generate_water_recommendation(name)
       IN /\ name \notin DOMAIN fra_data =>
               /\ ~r.raised
               /\ r.val = [recommendation |-> NotAvailableMessage,
                           distance |-> Str("N/A")]
          /\ name \in DOMAIN fra_data =>
               r.raised \/ r.val.distance.t = "float"
  /\ (HasVillages(request) /\ response.status = "success") =>
       \A i \in DOMAIN response.results :
         LET r == response.results[i]
         IN /\ Key(r.village) \notin DOMAIN fra_data =>
                 /\ r.recommendation = NotAvailableMessage
                 /\ r.distance_to_water = Str("N/A")
            /\ Key(r.village) \in DOMAIN fra_data =>
                 r.distance_to_water.t = "float"
            /\ r = Alone(Batch(request)[i]).results[1]

\* "Rampur" is loaded and "rampur" is not: a batch asking for both gets
\* "N/A" for the one and a distance for the other.
C4_Witness ==
  /\ DOMAIN fra_data = {Str("Rampur")}
  /\ water_body_locations # <<>>
  /\ response.status = "success"
  /\ Len(response.results) = 2
  /\ response.results[1].village = Str("rampur")
  /\ response.results[1].distance_to_water = Str("N/A")
  /\ response.results[2].village = Str("Rampur")
  /\ response.results[2].distance_to_water.t = "float"

\* Longitudes of the query points on the equator, in millidegrees.
ProbeLons == {-810, 0, 90, 4000}

\* The distances from the point to the stored water bodies, as a set.
WaterDistances(lon, lat) ==
  { haversine(lon, lat, w.lon, w.lat).val : w \in Range(water_body_locations) }

\* C5: get_nearest_water_distance is the least distance to a stored water
\* body, the sentinel exactly when none is stored; it is a function of the
\* set of stored points, not of their order.
C5_NearestIsMinimum ==
  phase = "serving" =>
    \A lon \in ProbeLons :
      LET d == get_nearest_water_distance(Milli(lon), Integer(0))
          S == WaterDistances(Milli(lon), Integer(0))
      IN /\ ~d.raised
         /\ d.val = Inf <=> water_body_locations = <<>>
         /\ S # {} => d.val \in S /\ \A x \in S : d.val <= x

\* Two water bodies are stored, the nearer one last, and a response
\* reports the distance to it.
C5_Witness ==
  /\ Len(water_body_locations) = 2
  /\ water_body_locations[2].lon = Milli(89)
  /\ haversine(Integer(0), Integer(0), water_body_locations[1].lon, Integer(0)).val > 9897
  /\ response.status = "success"
  /\ \E i \in DOMAIN response.results :
       response.results[i].distance_to_water = Distance(9897)

\* C7: once load_data has completed, fra_data and water_body_locations
\* keep their post-load values through every analyze request, and the
\* response is the one the request has on those values.
C7_ReadOnlyAfterLoad ==
  phase = "serving" =>
    LET st == load_data(EmptyDict, <<>>, files)
    IN /\ fra_data = st.fra_data
       /\ water_body_locations = st.water_body_locations
       /\ request # None => response = analyze(request)

\* A request for a known and an unknown name has been answered.
C7_Witness ==
  /\ phase = "serving"
  /\ fra_data # EmptyDict
  /\ water_body_locations # <<>>
  /\ response.status = "success"
  /\ Len(response.results) = 2
  /\ response.results[1].distance_to_water.t = "float"
  /\ response.results[2].distance_to_water = Str("N/A")

RECURSIVE FeaturesInOrder(_, _, _)
\* The features of the feature collections present, in load order (the
\* files in the order FILES declares them, the features in file order),
\* each with the state name of its file.
FeaturesInOrder(FILES, fs, k) ==
  IF k > Len(FILES) THEN <<>>
  ELSE LET file == fs[FILES[k].file_path]
           features == Features(file.data)
       IN (IF file = Missing \/ features.raised THEN <<>>
           ELSE [i \in DOMAIN features.val |->
                   [state |-> FILES[k].state_name,
                    feature |-> features.val[i]]])
          \o FeaturesInOrder(FILES, fs, k + 1)

\* The feature has a geometry with coordinates, both truthy.
HasCoordinates(feature) ==
  LET c == GeometryCoordinates(feature)
  IN ~c.raised /\ Truthy(c.val)

CoordinatesOf(feature) == GeometryCoordinates(feature).val

\* The name of a feature, None when it has none.
NameOf(feature) ==
  LET properties == Subscript(feature, "properties")
      name == Get(properties.val, "name")
  IN IF properties.raised \/ name.raised THEN None ELSE name.val

\* The shapes of GeoJSON coordinates.
IsVertex(x) ==
  /\ x.t = "list"
  /\ Len(x.v) = 2
  /\ x.v[1].t \in {"int", "float"}
  /\ x.v[2].t \in {"int", "float"}
IsRing(x) == x.t = "list" /\ \A v \in Range(x.v) : IsVertex(v)
IsPart(x) == x.t = "list" /\ \A r \in Range(x.v) : IsRing(r)
IsPolygon(x) == x.t = "list" /\ x.v # <<>> /\ \A r \in Range(x.v) : IsRing(r)
IsMultiPolygon(x) ==
  x.t = "list" /\ x.v # <<>> /\ \A q \in Range(x.v) : IsPart(q)

RECURSIVE Concat(_)
Concat(ss) == IF ss = <<>> THEN <<>> ELSE Head(ss) \o Concat(Tail(ss))

\* Every vertex of every ring (of every part) of a polygon or multi-polygon.
VerticesOf(c) ==
  LET rings == IF IsPolygon(c) THEN c.v
               ELSE Concat([i \in DOMAIN c.v |-> c.v[i].v])
  IN Concat([i \in DOMAIN rings |-> rings[i].v])

RECURSIVE SumCoordinate(_, _)
\* The sum of the k-th coordinates, in millidegrees (the coordinates of the
\* data sets are whole numbers of millidegrees).
SumCoordinate(vs, k) ==
  IF vs = <<>> THEN 0 ELSE Head(vs).v[k].n + SumCoordinate(Tail(vs), k)

\* The unweighted mean of the vertices (there is at least one).
Mean(vs) ==
  <<Float(SumCoordinate(vs, 1), Len(vs)), Float(SumCoordinate(vs, 2), Len(vs))>>

\* The first ring (of the first part) has a vertex.
LeadingRingNonEmpty(c) ==
  IF IsPolygon(c) THEN c.v[1].v # <<>>
  ELSE c.v[1].v # <<>> /\ c.v[1].v[1].v # <<>>

\* The water features of the files whose geometry has coordinates.
WaterFeaturesRead ==
  { e.feature : e \in { x \in Range(FeaturesInOrder(WATER_FILES, files, 1)) :
                          HasCoordinates(x.feature) } }

\* C6: a water feature with a malformed geometry (wrong nesting depth, an
\* empty ring, non-numeric coordinates) does not abort the load: the
\* process goes on to serve, with every well-formed feature's water point
\* stored.
C6_MalformedGeometryContained ==
  (phase # "startup"
     /\ \A p \in DOMAIN files :
          files[p] = Missing \/ ~Features(files[p].data).raised) =>
    /\ phase = "serving"
    /\ \A f \in WaterFeaturesRead :
         LET c == CoordinatesOf(f)
         IN ((IsPolygon(c) \/ IsMultiPolygon(c)) /\ LeadingRingNonEmpty(c)) =>
              [lon |-> Mean(VerticesOf(c))[1], lat |-> Mean(VerticesOf(c))[2]]
                \in Range(water_body_locations)

\* C8: for coordinates with no vertex at all find_polygon_centroid returns
\* (None, None), and load_data skips the feature without raising.
C8_ZeroVerticesAbsent ==
  phase # "startup" =>
    /\ \A f \in WaterFeaturesRead :
         LET c == CoordinatesOf(f)
         IN ((IsPolygon(c) \/ IsMultiPolygon(c)) /\ VerticesOf(c) = <<>>) =>
              find_polygon_centroid(c) = Return(<<None, None>>)
    /\ (/\ \A p \in DOMAIN files :
             files[p] = Missing \/ ~Features(files[p].data).raised
        /\ \A e \in Range(FeaturesInOrder(VILLAGE_FILES, files, 1)) :
             e.feature = VillageFeature(Named(Str("Rampur")), Point(0, 0))
        /\ \A f \in WaterFeaturesRead :
             IsPolygon(CoordinatesOf(f)) \/ IsMultiPolygon(CoordinatesOf(f)))
         => phase = "serving"

\* C9: find_polygon_centroid returns the mean of longitude and of latitude
\* over every vertex of every ring of a polygon, holes included, and of
\* every ring of every part of a multi-polygon (the first ring being
\* non-empty, so that the branch is decided); the mean times the vertex
\* count is the coordinate sum; the square [[[0,0],[0,2],[2,2],[2,0]]]
\* yields (1, 1); load_data stores the mean.
C9_VertexAverage ==
  /\ find_polygon_centroid(List(<<Square>>))
       = Return(<<Milli(1000), Milli(1000)>>)
  /\ \A f \in WaterFeaturesRead :
       LET c == CoordinatesOf(f)
           vs == VerticesOf(c)
           r == find_polygon_centroid(c)
       IN ((IsPolygon(c) \/ IsMultiPolygon(c)) /\ LeadingRingNonEmpty(c)) =>
            /\ r = Return(Mean(vs))
            /\ \A k \in 1..2 :
                 r.val[k].n * Len(vs) = SumCoordinate(vs, k) * r.val[k].d
            /\ phase = "serving" =>
                 [lon |-> Mean(vs)[1], lat |-> Mean(vs)[2]]
                   \in Range(water_body_locations)

\* A polygon of a one-vertex ring and a ring of two vertices has been
\* loaded: the three vertices (0,0), (4,1), (1,4) average to (5/3, 5/3),
\* which is no whole number of millidegrees.
C9_Witness ==
  /\ phase = "serving"
  /\ \E f \in WaterFeaturesRead :
       CoordinatesOf(f)
         = List(<<List(<<Vertex(0, 0)>>),
                  List(<<Vertex(4000, 1000), Vertex(1000, 4000)>>)>>)
  /\ water_body_locations = <<[lon |-> Float(5000, 3), lat |-> Float(5000, 3)]>>

\* The village features read, in load order, that the loop stores: those
\* with a non-empty name and non-empty coordinates.
VillagesStored ==
  SelectSeq(FeaturesInOrder(VILLAGE_FILES, files, 1),
            LAMBDA e : Truthy(NameOf(e.feature)) /\ HasCoordinates(e.feature))

\* C10: after load_data, fra_data holds exactly one record per name of a
\* stored village feature, with the state and location of the last such
\* feature in load order.
C10_LastFeatureWins ==
  phase = "serving" =>
    LET log == VillagesStored
        NameAt(i) == NameOf(log[i].feature)
    IN /\ DOMAIN fra_data = {Key(NameAt(i)) : i \in DOMAIN log}
       /\ \A name \in DOMAIN fra_data :
            LET last == CHOOSE i \in DOMAIN log :
                          /\ Key(NameAt(i)) = name
                          /\ \A j \in DOMAIN log :
                               Key(NameAt(j)) = name => j <= i
                location == Unpack2(CoordinatesOf(log[last].feature)).val
            IN fra_data[name] = [village |-> NameAt(last),
                                 state |-> log[last].state,
                                 lon |-> location[1],
                                 lat |-> location[2]]

\* "Rampur" was read from two files, first at 0 and then at 0.9 degrees:
\* the later file's record is the one kept.
C10_Witness ==
  /\ phase = "serving"
  /\ Len(VillagesStored) = 2
  /\ VillagesStored[1].feature
       = VillageFeature(Named(Str("Rampur")), Point(0, 0))
  /\ VillagesStored[2].feature
       = VillageFeature(Named(Str("Rampur")), Point(900, 0))
  /\ VillagesStored[1].state # VillagesStored[2].state
  /\ fra_data[Str("Rampur")].lon = Milli(900)
  /\ fra_data[Str("Rampur")].state = VillagesStored[2].state

====
